---- MODULE Spec2Model ----
(***************************************************************************)
(* Sender categorization pipeline of                                       *)
(* apps/web/app/(app)/stats/EmailActionsAnalytics.tsx:                     *)
(* categorizeSenders and the functions it calls, run by concurrent         *)
(* invocations against one shared store (the category, newsletter and user *)
(* tables).  Every await of the source is one step of an invocation.       *)
(***************************************************************************)
EXTENDS Integers, Sequences, FiniteSets, TLC

VARIABLES category, newsletter, user, mailbox, active, inv, call, runs, calls

vars == <<category, newsletter, user, mailbox, active, inv, call, runs, calls>>

-----------------------------------------------------------------------------
(* Bounds of the model *)

\* invocations of categorizeSenders started in one behaviour
MaxRuns == 3
\* direct callers of updateSenderCategory started in one behaviour
MaxCalls == 1

-----------------------------------------------------------------------------
(* Program constants *)

\* page size handed to findSenders
PageSize == 20
PreviousEmailsLimit == 3
REQUEST_MORE_INFORMATION_CATEGORY == "request more information"
UNKNOWN == "Unknown"
NEWSLETTER == "Newsletter"
RECEIPT == "Receipt"

\* a result without a category (category: undefined); falsy like ""
NoCategory == ""
\* a newsletter row whose categoryId is null, and "no id yet"
NoId == 0
\* a null date (dateRange.oldestDate / user.oldestCategorizedEmailTime)
NoDate == 0
\* pageToken undefined / nextPageToken null
NoToken == ""
\* a message whose snippet is undefined
NoSnippet == ""

-----------------------------------------------------------------------------
(* The environment: users, processes, senders and mailbox pages *)

Users == {"u1", "u2"}
Invs == {"i1", "i2"}
Callers == {"c1"}

\* A sender is the From header, kept as its tokens so that
\* sender.includes(`@${domain}>`) is computed, not looked up.
Bob == <<"Bob", "<", "bob", "@", "corp.example", ">">>
Al == <<"Al", "<", "al", "@", "gmail.com", ">">>
News == <<"News", "<", "newsletter", "@", "list.example", ">">>
\* a bare address: no ">" follows the domain
Plain == <<"a", "@", "gmail.com">>
\* an address both heuristics match
Shop == <<"Shop", "<", "newsletter", "receipts", "@", "store.example", ">">>
\* a newsletter address on a personal domain
Nina == <<"Nina", "<", "newsletter", "@", "gmail.com", ">">>
NoSender == <<>>

\* the categories a user starts with, in creation order
DefaultCatalog == <<NEWSLETTER, RECEIPT, "Personal">>

\* A page of the mailbox: the token that fetches it, and what findSenders
\* returns for it: senders (a Map, in insertion order) with their messages'
\* snippets, the next page token and the page's date range.
Page1 ==
  [pageToken |-> NoToken,
   senders |-> << [sender |-> Bob, messages |-> <<"hi">>],
                  [sender |-> Al, messages |-> <<>>] >>,
   nextPageToken |-> "t2",
   dateRange |-> [oldestDate |-> 2, newestDate |-> 3]]

Page2 ==
  [pageToken |-> "t2",
   senders |-> << [sender |-> Al, messages |-> <<"yo">>],
                  [sender |-> News, messages |-> <<NoSnippet>>] >>,
   nextPageToken |-> NoToken,
   dateRange |-> [oldestDate |-> 1, newestDate |-> 2]]

Page3 ==
  [pageToken |-> "t3",
   senders |-> << [sender |-> Al, messages |-> <<>>] >>,
   nextPageToken |-> NoToken,
   dateRange |-> [oldestDate |-> 3, newestDate |-> 3]]

Page4 ==
  [pageToken |-> "t4",
   senders |-> << [sender |-> Shop, messages |-> <<"%">>],
                  [sender |-> Nina, messages |-> <<"nn">>] >>,
   nextPageToken |-> NoToken,
   dateRange |-> [oldestDate |-> 1, newestDate |-> 1]]

Page5 ==
  [pageToken |-> "t5",
   senders |-> << [sender |-> Bob, messages |-> <<"hi">>],
                  [sender |-> Plain, messages |-> <<"re">>] >>,
   nextPageToken |-> NoToken,
   dateRange |-> [oldestDate |-> 2, newestDate |-> 2]]

\* the page of an exhausted mailbox (or of a window that holds nothing)
EmptyPage ==
  [pageToken |-> NoToken,
   senders |-> <<>>,
   nextPageToken |-> NoToken,
   dateRange |-> [oldestDate |-> NoDate, newestDate |-> NoDate]]

\* The scenarios explored: one invocation at a time over a mailbox of two
\* pages, started with or without categories; two racing invocations over
\* one page; an invocation racing a direct caller of updateSenderCategory.
Scenarios ==
  {[mailbox |-> {Page1, Page2}, active |-> {"i1"}, catalog |-> DefaultCatalog],
   [mailbox |-> {Page4, Page5}, active |-> {"i1"}, catalog |-> DefaultCatalog],
   [mailbox |-> {Page1, Page2}, active |-> {"i1"}, catalog |-> <<>>],
   [mailbox |-> {Page3}, active |-> {"i1", "i2"}, catalog |-> DefaultCatalog],
   [mailbox |-> {Page3}, active |-> {"i1", "c1"}, catalog |-> DefaultCatalog]}

\* what the batch engine can answer for one requested sender: a category
\* of the catalog, the sentinel, an entry without category, or no entry
Dropped == "(dropped)"
BatchOutcomes == {"Personal", REQUEST_MORE_INFORMATION_CATEGORY, NoCategory, Dropped}

\* what the single-sender engine can answer: none, or a category
NoResult == "(none)"
Throws == "(throws)"
SingleOutcomes == {NoResult, "Personal", "Marketing", Throws}

\* arguments of the direct calls of updateSenderCategory
CallSenders == {Bob, Al}
CallCategoryNames == {"Marketing", "Personal"}

-----------------------------------------------------------------------------
(* Pure helpers *)

Range(s) == {s[k] : k \in 1..Len(s)}

\* isDefined: drops undefined and null
isDefined(x) == x # NoSnippet

\* sender.includes(`@${domain}>`)
includesDomain(sender, domain) ==
  \E p \in 1..Len(sender) :
     /\ p + 2 <= Len(sender)
     /\ sender[p] = "@"
     /\ sender[p + 1] = domain
     /\ sender[p + 2] = ">"

personalEmailDomains ==
  {"gmail.com", "googlemail.com", "yahoo.com", "hotmail.com", "outlook.com", "aol.com"}

\* heuristics on the address (utils/ai/group): the address names a newsletter / receipts
isNewsletterSender(sender) == "newsletter" \in Range(sender)
isReceiptSender(sender) == "receipts" \in Range(sender)

StaticCategory_ReceiptFirst(sender) ==
  IF \E domain \in personalEmailDomains : includesDomain(sender, domain) THEN UNKNOWN
  ELSE IF isReceiptSender(sender) THEN RECEIPT
  ELSE IF isNewsletterSender(sender) THEN NEWSLETTER
  ELSE NoCategory

\* lines 339-348: the rules in their order, the first match wins
StaticCategory(sender) ==
  IF \E domain \in personalEmailDomains : includesDomain(sender, domain) THEN UNKNOWN
  ELSE IF isNewsletterSender(sender) THEN NEWSLETTER
  ELSE IF isReceiptSender(sender) THEN RECEIPT
  ELSE NoCategory

preCategorizeSendersWithStaticRules(senders) ==
  [k \in 1..Len(senders) |-> [sender |-> senders[k], category |-> StaticCategory(senders[k])]]

isUnknownSender(r) ==
  \/ r.category = NoCategory
  \/ r.category = UNKNOWN
  \/ r.category = REQUEST_MORE_INFORMATION_CATEGORY

\* Array.from(sendersResult.senders.keys()), uniq
SendersOf(page) == [k \in 1..Len(page.senders) |-> page.senders[k].sender]

\* sendersMap.get(sender)?.map((m) => m.snippet).filter(isDefined) || []
SnippetsOf(page, sender) ==
  LET hits == {k \in 1..Len(page.senders) : page.senders[k].sender = sender}
  IN IF hits = {} THEN <<>>
     ELSE SelectSeq(page.senders[CHOOSE k \in hits : TRUE].messages, isDefined)

\* the threads the provider holds of a sender, newest first; a thread may
\* have no snippet
ThreadsOf(sender) == <<"m1", NoSnippet, "m2", "m3", "m4">>

\* getThreadsFromSender(gmail, sender, limit): at most limit threads
getThreadsFromSender(sender, limit) ==
  SubSeq(ThreadsOf(sender), 1,
         IF Len(ThreadsOf(sender)) < limit THEN Len(ThreadsOf(sender)) ELSE limit)

\* getPreviousEmails, lines 269-277
getPreviousEmails(sender) ==
  SelectSeq(getThreadsFromSender(sender, PreviousEmailsLimit), isDefined)

\* the elements of a finite set of records, ordered by id
RECURSIVE ById(_)
ById(rows) ==
  IF rows = {} THEN <<>>
  ELSE LET first == CHOOSE r \in rows : \A q \in rows : r.id <= q.id
       IN <<first>> \o ById(rows \ {first})

sendersToCategorize_NoDedup(senders, existingSenders) == senders

\* senders.filter((sender) => !existingSenders.some((s) => s.email === sender))
sendersToCategorize(senders, existingSenders) ==
  LET isNew(sender) == ~ \E k \in 1..Len(existingSenders) : existingSenders[k].email = sender
  IN SelectSeq(senders, isNew)

sendersToCategorizeWithAi_IncludeUnknown(categorizedSenders) ==
  LET deferred == SelectSeq(categorizedSenders,
                            LAMBDA r : r.category \notin {NEWSLETTER, RECEIPT})
  IN [k \in 1..Len(deferred) |-> deferred[k].sender]

\* categorizedSenders.filter((sender) => !sender.category).map((sender) => sender.sender)
sendersToCategorizeWithAi(categorizedSenders) ==
  LET unresolved == SelectSeq(categorizedSenders, LAMBDA r : r.category = NoCategory)
  IN [k \in 1..Len(unresolved) |-> unresolved[k].sender]

\* the engine's answer, one choice per requested sender
RECURSIVE aiResults(_, _, _)
aiResults(senders, answer, k) ==
  IF k > Len(senders) THEN <<>>
  ELSE (IF answer[k] = Dropped THEN <<>>
        ELSE << [sender |-> senders[k], category |-> answer[k]] >>)
       \o aiResults(senders, answer, k + 1)

categorizeWithAiResults_DropUnresolved(categorizedSenders, engineResults) ==
  SelectSeq(categorizedSenders, LAMBDA r : r.category # NoCategory) \o engineResults

\* line 388: return [...categorizedSenders, ...aiResults]
categorizeWithAiResults(categorizedSenders, engineResults) ==
  categorizedSenders \o engineResults

-----------------------------------------------------------------------------
(* The store: prisma.category, prisma.newsletter, prisma.user *)

\* getUserCategories(userId)
getUserCategories(userId) == {c \in category : c.userId = userId}

\* getCategories(userId), lines 352-356
getCategories_NoCheck(userId) ==
  [error |-> "", categories |-> getUserCategories(userId)]

getCategories(userId) ==
  LET categories == getUserCategories(userId)
  IN IF Cardinality(categories) = 0
     THEN [error |-> "No categories found", categories |-> {}]
     ELSE [error |-> "", categories |-> categories]

\* the name of a row's category, NoCategory when it has none (s.category?.name)
CategoryNameOf(row) ==
  LET cs == {c \in category : c.id = row.categoryId}
  IN IF cs = {} THEN NoCategory ELSE (CHOOSE c \in cs : TRUE).name

\* prisma.newsletter.findMany({ where: { email: { in: senders }, userId } })
getExistingSenders(senders, userId) ==
  LET rows == ById({n \in newsletter : n.userId = userId /\ n.email \in Range(senders)})
  IN [k \in 1..Len(rows) |-> [email |-> rows[k].email, category |-> CategoryNameOf(rows[k])]]

\* findSenders(gmail, accessToken, 20, pageToken, oldestDate, newestDate):
\* the page the token names, or nothing when the window holds nothing
findSenders(pageToken) ==
  {p \in mailbox : p.pageToken = pageToken /\ Len(p.senders) <= PageSize} \cup {EmptyPage}

\* the page tokens a caller of categorizeSenders can hold: none, or one
\* that names a page
PageTokens == {NoToken} \cup {p.pageToken : p \in mailbox}

\* the unique (name, userId) key of the category table
CategoryConflict(name, userId) ==
  \E c \in category : c.name = name /\ c.userId = userId

\* prisma.category.create({ data: { name, userId } }): the table after it
CategoryCreated(name, userId) ==
  category \cup {[id |-> Cardinality(category) + 1, name |-> name, userId |-> userId]}

NewsletterUpserted_AlwaysCreate(email, userId, categoryId) ==
  newsletter \cup {[id |-> Cardinality(newsletter) + 1, email |-> email,
                    userId |-> userId, categoryId |-> categoryId]}

\* prisma.newsletter.upsert({ where: { email_userId }, update, create }): the table after it
NewsletterUpserted(email, userId, categoryId) ==
  LET hit == {n \in newsletter : n.email = email /\ n.userId = userId}
  IN IF hit # {}
     THEN {IF n \in hit THEN [n EXCEPT !.categoryId = categoryId] ELSE n : n \in newsletter}
     ELSE newsletter \cup {[id |-> Cardinality(newsletter) + 1, email |-> email,
                            userId |-> userId, categoryId |-> categoryId]}

UserUpdated_WriteNull(row, dateRange) ==
  [oldestCategorizedEmailTime |-> dateRange.oldestDate,
   newestCategorizedEmailTime |-> dateRange.newestDate]

\* prisma.user.update({ data: { newest: newestDate ?? undefined, oldest: ... } })
UserUpdated(row, dateRange) ==
  [oldestCategorizedEmailTime |->
     IF dateRange.oldestDate # NoDate THEN dateRange.oldestDate
     ELSE row.oldestCategorizedEmailTime,
   newestCategorizedEmailTime |->
     IF dateRange.newestDate # NoDate THEN dateRange.newestDate
     ELSE row.newestCategorizedEmailTime]

-----------------------------------------------------------------------------
(* Locals of one invocation / one caller *)

NoPage == EmptyPage
NoCall == [sender |-> NoSender, categoryName |-> NoCategory, categoryId |-> NoId]
NoUser == [oldestCategorizedEmailTime |-> NoDate, newestCategorizedEmailTime |-> NoDate]
NoRet == [categorizedCount |-> 0, nextPageToken |-> NoToken]

InvIdle ==
  [pc |-> "idle", userId |-> "u1", pageToken |-> NoToken, user |-> NoUser,
   categories |-> {}, sendersResult |-> NoPage, senders |-> <<>>,
   existingSenders |-> <<>>, batchInput |-> <<>>, results |-> <<>>,
   unknownSenders |-> <<>>, k |-> 0, stage |-> "", initialCount |-> 0,
   unknownCount |-> 0, previousEmails |-> <<>>, usc |-> NoCall, ret |-> NoRet, error |-> "", log |-> <<>>]

CallIdle ==
  [pc |-> "idle", userId |-> "u1", categories |-> {}, usc |-> NoCall,
   callNo |-> 0, outcomes |-> <<>>]

\* the log of an invocation: its external calls in the order they were
\* answered, each with the sender it was about and what it carried
\* (a category name, an engine answer, a failure)
Event(op, sender, result) == [op |-> op, sender |-> sender, result |-> result]
Logged(r, op, sender, result) ==
  [r EXCEPT !.log = Append(r.log, Event(op, sender, result))]

Terminated(r) == r.pc \in {"done", "error", "rejected"}

Returned_EchoToken(r) ==
  [categorizedCount |-> r.initialCount + r.unknownCount,
   nextPageToken |-> r.pageToken]

\* lines 143-146: the value categorizeSenders returns
Returned(r) ==
  [categorizedCount |-> r.initialCount + r.unknownCount,
   nextPageToken |-> r.sendersResult.nextPageToken]

\* updateSenderCategory up to its first await: categories.find, then
\* either prisma.category.create or prisma.newsletter.upsert is awaited
updateSenderCategory(r, sender, categoryName) ==
  LET found == {c \in r.categories : c.name = categoryName}
  IN IF found = {}
     THEN [r EXCEPT !.pc = "category.create",
                    !.usc = [sender |-> sender, categoryName |-> categoryName,
                             categoryId |-> NoId]]
     ELSE [r EXCEPT !.pc = "newsletter.upsert",
                    !.usc = [sender |-> sender, categoryName |-> categoryName,
                             categoryId |-> (CHOOSE c \in found : \A d \in found : c.id <= d.id).id]]

categorizeUnknownSenders_AlwaysFetch(r) ==
  IF r.k > Len(r.unknownSenders)
  THEN [r EXCEPT !.pc = "user.update", !.previousEmails = <<>>]
  ELSE [r EXCEPT !.pc = "getThreadsFromSender",
                 !.previousEmails = SnippetsOf(r.sendersResult, r.unknownSenders[r.k].sender)]

\* categorizeUnknownSenders from iteration r.k up to its next await
\* (lines 408-417)
categorizeUnknownSenders(r) ==
  IF r.k > Len(r.unknownSenders)
  THEN [r EXCEPT !.pc = "user.update", !.previousEmails = <<>>]
  ELSE LET previousEmails == SnippetsOf(r.sendersResult, r.unknownSenders[r.k].sender)
       IN IF Len(previousEmails) = 0
          THEN [r EXCEPT !.pc = "getThreadsFromSender", !.previousEmails = previousEmails]
          ELSE [r EXCEPT !.pc = "aiCategorizeSender", !.previousEmails = previousEmails]

unknownSenders_NoFilter(r) ==
  r.results
    \o [k \in 1..Len(r.existingSenders) |->
          [sender |-> r.existingSenders[k].email,
           category |-> r.existingSenders[k].category]]

\* categorizeSenders lines 114-123: the list of the second pass
unknownSenders(r) ==
  SelectSeq(r.results
              \o [k \in 1..Len(r.existingSenders) |->
                    [sender |-> r.existingSenders[k].email,
                     category |-> r.existingSenders[k].category]],
            isUnknownSender)

RECURSIVE NextWithCategory_SkipSentinels(_, _)
NextWithCategory_SkipSentinels(results, k) ==
  IF k > Len(results) THEN k
  ELSE IF isUnknownSender(results[k]) THEN NextWithCategory_SkipSentinels(results, k + 1)
  ELSE k

\* the index of the first result at or after k that has a category
\* (line 222: if (!result.category) continue)
RECURSIVE NextWithCategory(_, _)
NextWithCategory(results, k) ==
  IF k > Len(results) THEN k
  ELSE IF results[k].category = NoCategory THEN NextWithCategory(results, k + 1)
  ELSE k

categorizeNewSenders_OneWrite(r) ==
  LET k == NextWithCategory(r.results, r.k)
  IN IF k <= Len(r.results) /\ r.initialCount = 0
     THEN updateSenderCategory([r EXCEPT !.k = k], r.results[k].sender, r.results[k].category)
     ELSE categorizeUnknownSenders(
            [r EXCEPT !.stage = "fallback", !.k = 1, !.unknownSenders = unknownSenders(r)])

\* the for loop of categorizeNewSenders from index r.k up to its next
\* await; when it ends, the second pass begins
categorizeNewSenders(r) ==
  LET k == NextWithCategory(r.results, r.k)
  IN IF k <= Len(r.results)
     THEN updateSenderCategory([r EXCEPT !.k = k], r.results[k].sender, r.results[k].category)
     ELSE categorizeUnknownSenders(
            [r EXCEPT !.stage = "fallback", !.k = 1, !.unknownSenders = unknownSenders(r)])

-----------------------------------------------------------------------------
(* Initial state *)

Init ==
  /\ \E s \in Scenarios :
       /\ mailbox = s.mailbox
       /\ active = s.active
       /\ category = {[id |-> k, name |-> s.catalog[k], userId |-> "u1"] :
                        k \in 1..Len(s.catalog)}
  /\ newsletter = {}
  /\ user = [u \in Users |-> NoUser]
  /\ inv = [i \in Invs |-> InvIdle]
  /\ call = [c \in Callers |-> CallIdle]
  /\ runs = 0
  /\ calls = 0

-----------------------------------------------------------------------------
(* categorizeSenders *)

\* lines 72-86: the invocation and the answer of validateUserAndAiAccess
Validate(i) ==
  /\ i \in active
  /\ inv[i].pc = "idle" \/ Terminated(inv[i])
  /\ runs < MaxRuns
  /\ runs' = runs + 1
  /\ \E pageToken \in PageTokens, ok \in BOOLEAN :
       LET userId == "u1"
           r == Logged([InvIdle EXCEPT !.userId = userId, !.pageToken = pageToken],
                       "validateUserAndAiAccess", NoSender,
                       IF ok THEN "" ELSE "error")
       IN inv' = [inv EXCEPT ![i] =
                    IF ok THEN [r EXCEPT !.pc = "getCategories", !.user = user[userId]]
                    ELSE [r EXCEPT !.pc = "error", !.error = "validation"]]
  /\ UNCHANGED <<mailbox, active, category, newsletter, user, call, calls>>

\* lines 88-90 and 352-356
GetCategories(i) ==
  /\ inv[i].pc = "getCategories"
  /\ LET r == Logged(inv[i], "getUserCategories", NoSender, "")
         categoriesResult == getCategories(r.userId)
     IN inv' = [inv EXCEPT ![i] =
                  IF categoriesResult.error # ""
                  THEN [r EXCEPT !.pc = "error", !.error = categoriesResult.error]
                  ELSE [r EXCEPT !.pc = "findSenders",
                                 !.categories = categoriesResult.categories]]
  /\ UNCHANGED <<mailbox, active, category, newsletter, user, call, runs, calls>>

\* lines 92-99 and 149-170
FindAndPrepareSenders(i) ==
  /\ inv[i].pc = "findSenders"
  /\ \E page \in findSenders(inv[i].pageToken) :
       inv' = [inv EXCEPT ![i] =
                 [Logged(inv[i], "findSenders", NoSender, inv[i].pageToken)
                    EXCEPT !.pc = "getExistingSenders",
                           !.sendersResult = page,
                           !.senders = SendersOf(page)]]
  /\ UNCHANGED <<mailbox, active, category, newsletter, user, call, runs, calls>>

\* line 101, then categorizeNewSenders lines 200-218 and categorizeWithAi
\* lines 367-377 up to the await of aiCategorizeSenders
GetExistingSenders(i) ==
  /\ inv[i].pc = "getExistingSenders"
  /\ LET r == Logged(inv[i], "newsletter.findMany", NoSender, "")
         existing == getExistingSenders(r.senders, r.userId)
         categorizedSenders ==
           preCategorizeSendersWithStaticRules(sendersToCategorize(r.senders, existing))
     IN inv' = [inv EXCEPT ![i] =
                  [r EXCEPT !.pc = "aiCategorizeSenders",
                            !.existingSenders = existing,
                            !.results = categorizedSenders,
                            !.batchInput = sendersToCategorizeWithAi(categorizedSenders)]]
  /\ UNCHANGED <<mailbox, active, category, newsletter, user, call, runs, calls>>

CategorizeWithAi_PerSender(i) ==
  /\ inv[i].pc = "aiCategorizeSenders"
  /\ \E answer \in [1..Len(inv[i].batchInput) -> BatchOutcomes] :
       LET r == [inv[i] EXCEPT !.log = @ \o [k \in 1..Len(inv[i].batchInput) |->
                                                Event("aiCategorizeSenders", NoSender, "")]]
       IN inv' = [inv EXCEPT ![i] =
                    categorizeNewSenders(
                      [r EXCEPT !.stage = "batch", !.k = 1, !.initialCount = 0,
                                !.results = categorizeWithAiResults(
                                              r.results, aiResults(r.batchInput, answer, 1))])]
  /\ UNCHANGED <<mailbox, active, category, newsletter, user, call, runs, calls>>

\* lines 379-388: the batch engine answers; then the loop of lines 220-230
\* runs up to its first await
CategorizeWithAi(i) ==
  /\ inv[i].pc = "aiCategorizeSenders"
  /\ \E answer \in [1..Len(inv[i].batchInput) -> BatchOutcomes] :
       LET r == Logged(inv[i], "aiCategorizeSenders", NoSender, "")
       IN inv' = [inv EXCEPT ![i] =
                    categorizeNewSenders(
                      [r EXCEPT !.stage = "batch", !.k = 1, !.initialCount = 0,
                                !.results = categorizeWithAiResults(
                                              r.results, aiResults(r.batchInput, answer, 1))])]
  /\ UNCHANGED <<mailbox, active, category, newsletter, user, call, runs, calls>>

\* lines 295-301: prisma.category.create answers; a name the user already
\* has violates the unique key and the rejection escapes the invocation
CategoryCreate(i) ==
  /\ inv[i].pc = "category.create"
  /\ LET r == Logged(inv[i], "category.create", inv[i].usc.sender, inv[i].usc.categoryName)
     IN IF CategoryConflict(r.usc.categoryName, r.userId)
        THEN /\ inv' = [inv EXCEPT ![i] = [r EXCEPT !.pc = "rejected", !.error = "conflict"]]
             /\ UNCHANGED category
        ELSE /\ category' = CategoryCreated(r.usc.categoryName, r.userId)
             /\ inv' = [inv EXCEPT ![i] =
                          [r EXCEPT !.pc = "newsletter.upsert",
                                    !.usc.categoryId = Cardinality(category) + 1]]
  /\ UNCHANGED <<mailbox, active, newsletter, user, call, runs, calls>>

\* lines 306-314: prisma.newsletter.upsert answers; updateSenderCategory
\* returns and its caller's loop goes on to its next await
NewsletterUpsert(i) ==
  /\ inv[i].pc = "newsletter.upsert"
  /\ newsletter' = NewsletterUpserted(inv[i].usc.sender, inv[i].userId, inv[i].usc.categoryId)
  /\ LET r == Logged(inv[i], "newsletter.upsert", inv[i].usc.sender, inv[i].usc.categoryName)
     IN inv' = [inv EXCEPT ![i] =
                  IF r.stage = "batch"
                  THEN categorizeNewSenders(
                         [r EXCEPT !.initialCount = r.initialCount + 1, !.k = r.k + 1])
                  ELSE categorizeUnknownSenders(
                         [r EXCEPT !.unknownCount = r.unknownCount + 1, !.k = r.k + 1])]
  /\ UNCHANGED <<mailbox, active, category, user, call, runs, calls>>

\* lines 413-415 and 269-277: the provider answers, or fails
GetPreviousEmails(i) ==
  /\ inv[i].pc = "getThreadsFromSender"
  /\ \E ok \in BOOLEAN :
       LET r == Logged(inv[i], "getThreadsFromSender", inv[i].unknownSenders[inv[i].k].sender,
                       IF ok THEN "" ELSE Throws)
       IN inv' = [inv EXCEPT ![i] =
                    IF ok THEN [r EXCEPT !.pc = "aiCategorizeSender",
                                         !.previousEmails =
                                           getPreviousEmails(r.unknownSenders[r.k].sender)]
                    ELSE [r EXCEPT !.pc = "rejected", !.error = "provider"]]
  /\ UNCHANGED <<mailbox, active, category, newsletter, user, call, runs, calls>>

AiCategorizeSender_BreakOnNone(i) ==
  /\ inv[i].pc = "aiCategorizeSender"
  /\ \E aiResult \in SingleOutcomes :
       LET r == Logged(inv[i], "aiCategorizeSender", inv[i].unknownSenders[inv[i].k].sender,
                       aiResult)
       IN inv' = [inv EXCEPT ![i] =
                    IF aiResult = Throws THEN [r EXCEPT !.pc = "rejected", !.error = "engine"]
                    ELSE IF aiResult = NoResult
                         THEN [r EXCEPT !.k = r.k + 1, !.pc = "user.update"]
                         ELSE updateSenderCategory(r, r.unknownSenders[r.k].sender, aiResult)]
  /\ UNCHANGED <<mailbox, active, category, newsletter, user, call, runs, calls>>

\* lines 417-432: the single-sender engine answers, or fails
AiCategorizeSender(i) ==
  /\ inv[i].pc = "aiCategorizeSender"
  /\ \E aiResult \in SingleOutcomes :
       LET r == Logged(inv[i], "aiCategorizeSender", inv[i].unknownSenders[inv[i].k].sender,
                       aiResult)
       IN inv' = [inv EXCEPT ![i] =
                    IF aiResult = Throws THEN [r EXCEPT !.pc = "rejected", !.error = "engine"]
                    ELSE IF aiResult = NoResult
                         THEN categorizeUnknownSenders([r EXCEPT !.k = r.k + 1])
                         ELSE updateSenderCategory(r, r.unknownSenders[r.k].sender, aiResult)]
  /\ UNCHANGED <<mailbox, active, category, newsletter, user, call, runs, calls>>

\* lines 132-146: the watermark update, then the result
UserUpdate(i) ==
  /\ inv[i].pc = "user.update"
  /\ user' = [user EXCEPT ![inv[i].userId] = UserUpdated(@, inv[i].sendersResult.dateRange)]
  /\ LET r == Logged(inv[i], "user.update", NoSender, "")
     IN inv' = [inv EXCEPT ![i] =
                  [r EXCEPT !.pc = "done",
                            !.ret = Returned(r)]]
  /\ UNCHANGED <<mailbox, active, category, newsletter, call, runs, calls>>

-----------------------------------------------------------------------------
(* Direct calls of updateSenderCategory (lines 279-320), replayed once *)

\* a caller reads the catalog and calls updateSenderCategory
CallStart(c) ==
  /\ c \in active
  /\ call[c].pc = "idle" \/ (call[c].pc = "returned" /\ call[c].callNo = 2)
  /\ calls < MaxCalls
  /\ calls' = calls + 1
  /\ \E userId \in Users, sender \in CallSenders, categoryName \in CallCategoryNames :
       call' = [call EXCEPT ![c] =
                  updateSenderCategory(
                    [CallIdle EXCEPT !.userId = userId, !.callNo = 1,
                                     !.categories = getUserCategories(userId)],
                    sender, categoryName)]
  /\ UNCHANGED <<mailbox, active, category, newsletter, user, inv, runs>>

\* the same call again, with the same arguments
CallReplay(c) ==
  /\ call[c].pc = "returned"
  /\ call[c].callNo = 1
  /\ call' = [call EXCEPT ![c] =
                updateSenderCategory([call[c] EXCEPT !.callNo = 2],
                                     call[c].usc.sender, call[c].usc.categoryName)]
  /\ UNCHANGED <<mailbox, active, category, newsletter, user, inv, runs, calls>>

CallCategoryCreate(c) ==
  /\ call[c].pc = "category.create"
  /\ IF CategoryConflict(call[c].usc.categoryName, call[c].userId)
     THEN /\ call' = [call EXCEPT ![c].pc = "returned",
                                  ![c].outcomes = Append(@, "conflict")]
          /\ UNCHANGED category
     ELSE /\ category' = CategoryCreated(call[c].usc.categoryName, call[c].userId)
          /\ call' = [call EXCEPT ![c].pc = "newsletter.upsert",
                                  ![c].usc.categoryId = Cardinality(category) + 1]
  /\ UNCHANGED <<mailbox, active, newsletter, user, inv, runs, calls>>

CallNewsletterUpsert(c) ==
  /\ call[c].pc = "newsletter.upsert"
  /\ newsletter' = NewsletterUpserted(call[c].usc.sender, call[c].userId, call[c].usc.categoryId)
  /\ call' = [call EXCEPT ![c].pc = "returned", ![c].outcomes = Append(@, "ok")]
  /\ UNCHANGED <<mailbox, active, category, user, inv, runs, calls>>

-----------------------------------------------------------------------------

Next ==
  \/ \E i \in Invs : Validate(i)
  \/ \E i \in Invs : GetCategories(i)
  \/ \E i \in Invs : FindAndPrepareSenders(i)
  \/ \E i \in Invs : GetExistingSenders(i)
  \/ \E i \in Invs : CategorizeWithAi(i)
  \/ \E i \in Invs : CategoryCreate(i)
  \/ \E i \in Invs : NewsletterUpsert(i)
  \/ \E i \in Invs : GetPreviousEmails(i)
  \/ \E i \in Invs : AiCategorizeSender(i)
  \/ \E i \in Invs : UserUpdate(i)
  \/ \E c \in Callers : CallStart(c)
  \/ \E c \in Callers : CallReplay(c)
  \/ \E c \in Callers : CallCategoryCreate(c)
  \/ \E c \in Callers : CallNewsletterUpsert(c)

Spec == Init /\ [][Next]_vars

-----------------------------------------------------------------------------
(* Reading an invocation's log *)

\* the positions of the log that hold a call op about sender
Calls(r, op, sender) ==
  {k \in DOMAIN r.log : r.log[k].op = op /\ r.log[k].sender = sender}

Times(r, op, sender) == Cardinality(Calls(r, op, sender))

\* the results of the static stage and of the batch engine, which
\* categorizeWithAi concatenates (line 388)
StaticPart(r) == SubSeq(r.results, 1, Len(sendersToCategorize(r.senders, r.existingSenders)))
AiPart(r) ==
  SubSeq(r.results, Len(sendersToCategorize(r.senders, r.existingSenders)) + 1, Len(r.results))

\* the batch engine has answered
BatchAnswered(r) == \E k \in DOMAIN r.log : r.log[k].op = "aiCategorizeSenders"

\* the category a discovered sender holds after the static and batch
\* stages: the engine's answer, else the static rule's, else the stored one
ResolvedCategory(r, sender) ==
  LET ai == {k \in DOMAIN AiPart(r) : AiPart(r)[k].sender = sender}
      st == {k \in DOMAIN StaticPart(r) : StaticPart(r)[k].sender = sender}
      ex == {k \in DOMAIN r.existingSenders : r.existingSenders[k].email = sender}
  IN IF ai # {} THEN AiPart(r)[CHOOSE k \in ai : TRUE].category
     ELSE IF st # {} THEN StaticPart(r)[CHOOSE k \in st : TRUE].category
     ELSE IF ex # {} THEN r.existingSenders[CHOOSE k \in ex : TRUE].category
     ELSE NoCategory

\* the reader has answered / the existing assignments have been looked up
Found(r) == \E k \in DOMAIN r.log : r.log[k].op = "findSenders"
Prepared(r) == \E k \in DOMAIN r.log : r.log[k].op = "newsletter.findMany"

\* the reader answered with no senders and no observed dates
FoundNothing(r) ==
  /\ Found(r)
  /\ r.senders = <<>>
  /\ r.sendersResult.dateRange = [oldestDate |-> NoDate, newestDate |-> NoDate]

\* the positions of the log that hold a call op
At(r, op) == {k \in DOMAIN r.log : r.log[k].op = op}

\* the positions of the log that belong to the second pass before its
\* writes: a provider fetch or a single-sender engine call
FallbackCalls(r) == At(r, "getThreadsFromSender") \cup At(r, "aiCategorizeSender")

\* the positions of an invocation's results that are about sender
Entries(r, sender) == {k \in DOMAIN r.results : r.results[k].sender = sender}

\* the senders an invocation wrote an assignment for
AssignedSenders(r) == {r.log[k].sender : k \in {j \in DOMAIN r.log : r.log[j].op = "newsletter.upsert"}}

-----------------------------------------------------------------------------
(* Claims *)

\* C1: watermark monotonicity: in every step the stored
\* oldestCategorizedEmailTime, once set, does not increase and the stored
\* newestCategorizedEmailTime does not decrease.
C1_WatermarkMonotone ==
  [][\A u \in Users :
       /\ user[u].oldestCategorizedEmailTime # NoDate =>
            /\ user'[u].oldestCategorizedEmailTime # NoDate
            /\ user'[u].oldestCategorizedEmailTime <= user[u].oldestCategorizedEmailTime
       /\ user'[u].newestCategorizedEmailTime >= user[u].newestCategorizedEmailTime]_vars

\* C2: idempotence of assign: after updateSenderCategory has been called
\* twice with the same arguments, there is exactly one assignment row for
\* (sender, user) and exactly one category of that name for the user.
C2_AssignIdempotent ==
  \A c \in Callers :
     (call[c].callNo = 2 /\ call[c].pc = "returned") =>
        /\ Cardinality({n \in newsletter :
                          n.email = call[c].usc.sender /\ n.userId = call[c].userId}) = 1
        /\ Cardinality({g \in category :
                          g.name = call[c].usc.categoryName /\ g.userId = call[c].userId}) = 1

\* C3: fallback completeness: in a completed invocation every discovered
\* sender whose result after the static and batch stages is unresolved,
\* "Unknown" or "request more information" was given to the Fallback
\* classifier exactly once, and a sender the batch engine resolved to a
\* real category was not given to it.
C3_FallbackExactlyOnce ==
  \A i \in Invs :
     inv[i].pc = "done" =>
       \A k \in DOMAIN inv[i].senders :
          LET sender == inv[i].senders[k]
              resolved == [category |-> ResolvedCategory(inv[i], sender)]
          IN /\ isUnknownSender(resolved) => Times(inv[i], "aiCategorizeSender", sender) = 1
             /\ (/\ \E j \in DOMAIN AiPart(inv[i]) : AiPart(inv[i])[j].sender = sender
                 /\ ~ isUnknownSender(resolved))
                  => Times(inv[i], "aiCategorizeSender", sender) = 0

\* C4: dedup correctness: a discovered sender that the lookup found with a
\* category other than "Unknown" and "request more information" is not among
\* the senders of the invocation's batch engine call.
C4_DedupCorrect ==
  \A i \in Invs :
     \A k \in DOMAIN inv[i].existingSenders :
        inv[i].existingSenders[k].category \notin {UNKNOWN, REQUEST_MORE_INFORMATION_CATEGORY}
          => inv[i].existingSenders[k].email \notin Range(inv[i].batchInput)

\* C4 witness: the batch engine was called with a sender while another
\* discovered sender already had a real category.
C4_Witness ==
  \E i \in Invs :
     /\ BatchAnswered(inv[i])
     /\ inv[i].batchInput # <<>>
     /\ \E k \in DOMAIN inv[i].existingSenders :
          ~ isUnknownSender(inv[i].existingSenders[k])

\* C5: an invocation whose validation failed, or that read an empty
\* catalog, has returned the error and has called nothing but the
\* validation and the catalog read: no mailbox read, no engine call, no
\* category or assignment write, no watermark update.
C5_ErrorShortCircuit ==
  \A i \in Invs :
     (\/ \E k \in DOMAIN inv[i].log :
            inv[i].log[k] = Event("validateUserAndAiAccess", NoSender, "error")
      \/ /\ \E k \in DOMAIN inv[i].log : inv[i].log[k].op = "getUserCategories"
         /\ inv[i].categories = {})
       => /\ inv[i].pc = "error"
          /\ inv[i].error \in {"validation", "No categories found"}
          /\ \A k \in DOMAIN inv[i].log :
               inv[i].log[k].op \in {"validateUserAndAiAccess", "getUserCategories"}

\* C5 witness: an invocation returned "No categories found".
C5_Witness ==
  \E i \in Invs : inv[i].pc = "error" /\ inv[i].error = "No categories found"

\* C6: in a completed invocation, a new sender for which the batch engine
\* answered "request more information" and every Fallback engine call
\* answered nothing has no assignment written by the invocation and is not
\* counted in categorizedCount.
C6_InsufficientNotPersisted ==
  \A i \in Invs :
     inv[i].pc = "done" =>
       \A j \in DOMAIN AiPart(inv[i]) :
          LET sender == AiPart(inv[i])[j].sender
          IN (/\ AiPart(inv[i])[j].category = REQUEST_MORE_INFORMATION_CATEGORY
              /\ Calls(inv[i], "aiCategorizeSender", sender) # {}
              /\ \A k \in Calls(inv[i], "aiCategorizeSender", sender) :
                   inv[i].log[k].result = NoResult)
               => /\ Times(inv[i], "newsletter.upsert", sender) = 0
                  /\ inv[i].ret.categorizedCount
                       = Cardinality({k \in DOMAIN inv[i].log :
                                        /\ inv[i].log[k].op = "newsletter.upsert"
                                        /\ inv[i].log[k].sender # sender})

\* C6 as the code has it: for such a sender the invocation wrote exactly
\* one assignment, the batch pass's, to the "request more information"
\* category; the sender holds a row and is counted once in categorizedCount.
C6_InsufficientKeepsBatchRow ==
  \A i \in Invs :
     inv[i].pc = "done" =>
       \A j \in DOMAIN AiPart(inv[i]) :
          LET sender == AiPart(inv[i])[j].sender
          IN (/\ AiPart(inv[i])[j].category = REQUEST_MORE_INFORMATION_CATEGORY
              /\ Calls(inv[i], "aiCategorizeSender", sender) # {}
              /\ \A k \in Calls(inv[i], "aiCategorizeSender", sender) :
                   inv[i].log[k].result = NoResult)
               => /\ Times(inv[i], "newsletter.upsert", sender) = 1
                  /\ \A k \in Calls(inv[i], "newsletter.upsert", sender) :
                       inv[i].log[k].result = REQUEST_MORE_INFORMATION_CATEGORY
                  /\ \E n \in newsletter : n.email = sender /\ n.userId = inv[i].userId
                  /\ inv[i].ret.categorizedCount
                       = 1 + Cardinality({k \in DOMAIN inv[i].log :
                                            /\ inv[i].log[k].op = "newsletter.upsert"
                                            /\ inv[i].log[k].sender # sender})

\* C6 witness: a completed invocation in which the batch engine answered
\* "request more information" for Bob and the Fallback engine answered
\* nothing for him.
C6_Witness ==
  \E i \in Invs :
     /\ inv[i].pc = "done"
     /\ \E j \in DOMAIN AiPart(inv[i]) :
          /\ AiPart(inv[i])[j] = [sender |-> Bob, category |-> REQUEST_MORE_INFORMATION_CATEGORY]
     /\ Calls(inv[i], "aiCategorizeSender", Bob) # {}
     /\ \A k \in Calls(inv[i], "aiCategorizeSender", Bob) : inv[i].log[k].result = NoResult

\* C7: get-or-create under races: when two invocations have both asked the
\* store to create a category of the same name, the conflict is surfaced
\* to neither, the store holds exactly one category of that name, and both
\* went on to assign their sender.
C7_GetOrCreateUnderRace ==
  \A i, j \in Invs :
     (/\ i # j
      /\ Terminated(inv[i])
      /\ Terminated(inv[j])
      /\ inv[i].userId = inv[j].userId)
       => \A a \in DOMAIN inv[i].log, b \in DOMAIN inv[j].log :
             (/\ inv[i].log[a].op = "category.create"
              /\ inv[j].log[b].op = "category.create"
              /\ inv[i].log[a].result = inv[j].log[b].result)
               => /\ inv[i].error # "conflict"
                  /\ inv[j].error # "conflict"
                  /\ Cardinality({g \in category : /\ g.name = inv[i].log[a].result
                                                    /\ g.userId = inv[i].userId}) = 1
                  /\ a < Len(inv[i].log) /\ inv[i].log[a + 1].op = "newsletter.upsert"
                  /\ b < Len(inv[j].log) /\ inv[j].log[b + 1].op = "newsletter.upsert"

\* C8: the categorizedCount of a completed invocation is the number of
\* distinct senders that received an assignment during the invocation.
C8_CountsDistinctSenders ==
  \A i \in Invs :
     inv[i].pc = "done" =>
       inv[i].ret.categorizedCount = Cardinality(AssignedSenders(inv[i]))

\* C9: every (sender, user) pair has at most one assignment row, in every
\* reachable state of the store.
C9_OneAssignmentPerSender ==
  \A n, m \in newsletter :
     (n.email = m.email /\ n.userId = m.userId) => n = m

\* C9 witness: one invocation has upserted the same sender twice (the
\* batch pass and the fallback pass) and the sender holds one row.
C9_Witness ==
  \E i \in Invs :
     /\ Times(inv[i], "newsletter.upsert", Al) >= 2
     /\ Cardinality({n \in newsletter : n.email = Al /\ n.userId = inv[i].userId}) = 1

\* C10: failure isolation in the Fallback loop: an invocation in which a
\* provider fetch or an engine call of the loop failed still completes, and
\* every sender of its fallback list was processed.
C10_FallbackFailureIsolated ==
  \A i \in Invs :
     (/\ Terminated(inv[i])
      /\ \E k \in DOMAIN inv[i].log :
           /\ inv[i].log[k].op \in {"getThreadsFromSender", "aiCategorizeSender"}
           /\ inv[i].log[k].result = Throws)
       => /\ inv[i].pc = "done"
          /\ \A k \in DOMAIN inv[i].unknownSenders :
               \/ Times(inv[i], "aiCategorizeSender", inv[i].unknownSenders[k].sender) > 0
               \/ Times(inv[i], "getThreadsFromSender", inv[i].unknownSenders[k].sender) > 0

\* C11: with no prior assignments, the senders of the batch engine call
\* are exactly the discovered senders that the static rules did not resolve
\* to "Newsletter" or "Receipt" (a sender deferred as "Unknown" included).
C11_BatchHoldsDeferred ==
  \A i \in Invs :
     (BatchAnswered(inv[i]) /\ inv[i].existingSenders = <<>>) =>
        Range(inv[i].batchInput)
          = {sender \in Range(inv[i].senders) :
               StaticCategory(sender) \notin {NEWSLETTER, RECEIPT}}

\* C11 as the code has it: with no prior assignments, the senders of the
\* batch engine call are exactly the discovered senders to which the static
\* rules gave no category; a sender deferred as "Unknown" is not among
\* them, nor is one resolved to "Newsletter" or "Receipt".
C11_BatchHoldsUncategorized ==
  \A i \in Invs :
     (BatchAnswered(inv[i]) /\ inv[i].existingSenders = <<>>) =>
        /\ Range(inv[i].batchInput)
             = {sender \in Range(inv[i].senders) : StaticCategory(sender) = NoCategory}
        /\ \A sender \in Range(inv[i].senders) :
             StaticCategory(sender) \in {UNKNOWN, NEWSLETTER, RECEIPT}
               => sender \notin Range(inv[i].batchInput)

\* C11 witness: the batch engine answered for a page without prior
\* assignments that holds a personal-domain sender and an unmatched one.
C11_Witness ==
  \E i \in Invs :
     /\ BatchAnswered(inv[i])
     /\ inv[i].existingSenders = <<>>
     /\ Al \in Range(inv[i].senders)
     /\ StaticCategory(Al) = UNKNOWN
     /\ Bob \in Range(inv[i].batchInput)

\* C12: an empty discovery page is a valid terminal state: no step of an
\* invocation whose reader returned no senders and no dates changes the
\* stored assignments, categories or watermark, the invocation does not
\* fail, and it returns categorizedCount = 0.
C12_EmptyPageIsPureRead ==
  [][\A i \in Invs :
       (FoundNothing(inv'[i]) /\ inv'[i] # inv[i]) =>
          /\ category' = category
          /\ newsletter' = newsletter
          /\ user' = user
          /\ inv'[i].pc \notin {"error", "rejected"}
          /\ inv'[i].pc = "done" =>
               /\ inv'[i].ret.categorizedCount = 0
               /\ inv'[i].error = ""]_vars

\* C12 witness: an invocation over an empty page has returned while the
\* store holds a watermark and assignments of an earlier invocation.
C12_Witness ==
  \E i \in Invs :
     /\ FoundNothing(inv[i])
     /\ inv[i].pc = "done"
     /\ inv[i].ret.categorizedCount = 0
     /\ user[inv[i].userId].newestCategorizedEmailTime # NoDate
     /\ newsletter # {}

\* C13: continuation token threading: the reader is asked for the page of
\* the pageToken the invocation was given, and a successful result carries
\* the nextPageToken the reader returned with that page, none exactly when
\* the reader reported exhaustion.
C13_TokenThreading ==
  \A i \in Invs :
     /\ Found(inv[i]) =>
          /\ \E k \in DOMAIN inv[i].log :
               /\ inv[i].log[k].op = "findSenders"
               /\ inv[i].log[k].result = inv[i].pageToken
          /\ inv[i].sendersResult \in findSenders(inv[i].pageToken)
     /\ inv[i].pc = "done" =>
          /\ inv[i].ret.nextPageToken = inv[i].sendersResult.nextPageToken
          /\ (inv[i].ret.nextPageToken = NoToken)
               <=> (inv[i].sendersResult.nextPageToken = NoToken)

\* C13 witness: an invocation given no token has returned the token of the
\* second page.
C13_Witness ==
  \E i \in Invs :
     /\ inv[i].pc = "done"
     /\ inv[i].pageToken = NoToken
     /\ inv[i].sendersResult = Page1
     /\ inv[i].ret.nextPageToken = "t2"

\* C14: static-rule priority: every sender of the static stage gets the
\* category of the first rule it matches in the order personal domain,
\* newsletter, receipt, and none when it matches no rule; a sender matching
\* the newsletter and the receipt heuristic and no personal domain gets
\* "Newsletter".
C14_StaticRulePriority ==
  \A i \in Invs :
     Prepared(inv[i]) =>
        /\ Len(StaticPart(inv[i]))
             = Len(sendersToCategorize(inv[i].senders, inv[i].existingSenders))
        /\ \A k \in DOMAIN StaticPart(inv[i]) :
             LET sender == StaticPart(inv[i])[k].sender
                 got == StaticPart(inv[i])[k].category
                 personal == \E domain \in personalEmailDomains : includesDomain(sender, domain)
             IN /\ sender = sendersToCategorize(inv[i].senders, inv[i].existingSenders)[k]
                /\ personal => got = UNKNOWN
                /\ (~ personal /\ isNewsletterSender(sender)) => got = NEWSLETTER
                /\ (~ personal /\ ~ isNewsletterSender(sender) /\ isReceiptSender(sender))
                     => got = RECEIPT
                /\ (~ personal /\ ~ isNewsletterSender(sender) /\ ~ isReceiptSender(sender))
                     => got = NoCategory

\* C14 witness: the static stage has resolved a sender that matches both
\* heuristics to "Newsletter" and a newsletter sender of a personal domain
\* to "Unknown".
C14_Witness ==
  \E i \in Invs :
     /\ Prepared(inv[i])
     /\ isNewsletterSender(Shop) /\ isReceiptSender(Shop)
     /\ [sender |-> Shop, category |-> NEWSLETTER] \in Range(StaticPart(inv[i]))
     /\ isNewsletterSender(Nina)
     /\ [sender |-> Nina, category |-> UNKNOWN] \in Range(StaticPart(inv[i]))

\* C15: stage ordering within one invocation: the reader is called before
\* the lookup of existing assignments, which is before the batch engine
\* call; every result of the first pass that has a category is written
\* before the first call of the second pass; and the watermark update is
\* the last call of the invocation, after every assignment write.
C15_StageOrdering ==
  \A i \in Invs :
     LET r == inv[i]
     IN /\ \A b \in At(r, "newsletter.findMany") :
             \E a \in At(r, "findSenders") : a < b
        /\ \A c \in At(r, "aiCategorizeSenders") :
             \E b \in At(r, "newsletter.findMany") : b < c
        /\ \A f \in FallbackCalls(r) :
             /\ \E c \in At(r, "aiCategorizeSenders") : c < f
             /\ \A k \in DOMAIN r.results :
                  r.results[k].category # NoCategory =>
                     \E p \in At(r, "newsletter.upsert") :
                        /\ p < f
                        /\ r.log[p].sender = r.results[k].sender
                        /\ r.log[p].result = r.results[k].category
        /\ FallbackCalls(r) # {} =>
             Cardinality({p \in At(r, "newsletter.upsert") :
                            \A f \in FallbackCalls(r) : p < f}) = r.initialCount
        /\ \A u \in At(r, "user.update") :
             /\ u = Len(r.log)
             /\ r.pc = "done"
        /\ r.pc = "done" => At(r, "user.update") = {Len(r.log)}

\* C15 witness: an invocation has returned after writes of both passes.
C15_Witness ==
  \E i \in Invs :
     /\ inv[i].pc = "done"
     /\ inv[i].initialCount >= 2
     /\ inv[i].unknownCount >= 1
     /\ \E p \in At(inv[i], "newsletter.upsert"), f \in FallbackCalls(inv[i]) : f < p

\* C16: the batch stage is a single round trip: an invocation calls the
\* batch engine at most once, exactly once when it passed the checks of
\* the user and of the catalog and the lookups answered, whatever the
\* number of senders the static rules left unresolved, and no single-sender
\* engine call precedes the batch call or happens during the first pass.
C16_SingleBatchRoundTrip ==
  \A i \in Invs :
     LET r == inv[i]
     IN /\ Cardinality(At(r, "aiCategorizeSenders")) <= 1
        /\ r.pc \in {"category.create", "newsletter.upsert", "getThreadsFromSender",
                     "aiCategorizeSender", "user.update", "done", "rejected"}
             => Cardinality(At(r, "aiCategorizeSenders")) = 1
        /\ r.pc \in {"idle", "error", "getCategories", "findSenders",
                     "getExistingSenders", "aiCategorizeSenders"}
             => At(r, "aiCategorizeSenders") = {}
        /\ \A f \in At(r, "aiCategorizeSender") :
             \E c \in At(r, "aiCategorizeSenders") : c < f
        /\ r.stage = "batch" => At(r, "aiCategorizeSender") = {}

\* C16 witness: an invocation that asked the batch engine about two senders
\* has returned after one batch call.
C16_Witness ==
  \E i \in Invs :
     /\ inv[i].pc = "done"
     /\ Len(inv[i].batchInput) = 2
     /\ Cardinality(At(inv[i], "aiCategorizeSenders")) = 1

\* C17: a discovered sender whose existing assignment has a real category
\* (not empty, not "Unknown", not the request for more information) is not
\* in the batch call nor in the list of the second pass, the invocation
\* makes no provider, engine or store call about it, and with no other
\* writer active its stored assignment keeps the category it had.
C17_RealCategoryUntouched ==
  \A i \in Invs :
     LET r == inv[i]
     IN Prepared(r) =>
          \A k \in DOMAIN r.existingSenders :
             LET email == r.existingSenders[k].email
                 had == r.existingSenders[k].category
             IN had \notin {NoCategory, UNKNOWN, REQUEST_MORE_INFORMATION_CATEGORY} =>
                  /\ email \in Range(r.senders)
                  /\ email \notin Range(r.batchInput)
                  /\ \A j \in DOMAIN r.unknownSenders : r.unknownSenders[j].sender # email
                  /\ \A p \in DOMAIN r.log : r.log[p].sender # email
                  /\ active = {i} =>
                       /\ Cardinality({n \in newsletter :
                                         n.email = email /\ n.userId = r.userId}) = 1
                       /\ \A n \in newsletter :
                            (n.email = email /\ n.userId = r.userId)
                              => CategoryNameOf(n) = had

\* C17 witness: an invocation has returned after a second pass over a page
\* that holds a sender already assigned to "Personal".
C17_Witness ==
  \E i \in Invs :
     /\ inv[i].pc = "done"
     /\ active = {i}
     /\ inv[i].unknownSenders # <<>>
     /\ \E k \in DOMAIN inv[i].existingSenders :
          inv[i].existingSenders[k].category = "Personal"

\* C18: when the batch engine returns no result for a requested sender,
\* the invocation does not fail at the batch call: the sender stays in the
\* results without category, gets no assignment before the second pass
\* has asked the single-sender engine about it, and is in the list of the
\* second pass.
C18_MissingBatchResultUnresolved ==
  \A i \in Invs :
     LET r == inv[i]
     IN BatchAnswered(r) =>
          /\ r.pc # "error"
          /\ r.pc = "rejected" => r.log[Len(r.log)].op # "aiCategorizeSenders"
          /\ \A d \in Range(r.batchInput) :
               Cardinality(Entries(r, d)) <= 1 =>
                  /\ Entries(r, d) # {}
                  /\ \A k \in Entries(r, d) : r.results[k].category = NoCategory
                  /\ \A p \in At(r, "newsletter.upsert") :
                       r.log[p].sender = d =>
                          \E f \in At(r, "aiCategorizeSender") :
                             f < p /\ r.log[f].sender = d
                  /\ r.stage = "fallback" =>
                       \E j \in DOMAIN r.unknownSenders : r.unknownSenders[j].sender = d
                  /\ r.pc = "done" =>
                       \E f \in At(r, "aiCategorizeSender") : r.log[f].sender = d

\* C18 witness: of two senders the batch engine was asked about it
\* answered for one only; the invocation has returned and the second pass
\* has assigned the other.
C18_Witness ==
  \E i \in Invs :
     /\ inv[i].pc = "done"
     /\ Len(inv[i].batchInput) = 2
     /\ Len(inv[i].results) = 3
     /\ \E d \in Range(inv[i].batchInput) :
          /\ Cardinality(Entries(inv[i], d)) = 1
          /\ \E p \in At(inv[i], "newsletter.upsert") : inv[i].log[p].sender = d

\* C19: in the second pass an engine call that returns no result writes no
\* assignment and no category, leaves the count of the pass as it was and
\* moves on to the next sender of the list, which is left as it was; an
\* invocation that returns has asked the engine about every sender of the
\* list and counts only the calls that returned a result.
C19_NoResultContinues ==
  [][\A i \in Invs :
       /\ (/\ inv[i].pc = "aiCategorizeSender"
           /\ inv'[i].log = Append(inv[i].log,
                                   Event("aiCategorizeSender",
                                         inv[i].unknownSenders[inv[i].k].sender, NoResult)))
            => /\ newsletter' = newsletter
               /\ category' = category
               /\ inv'[i].unknownCount = inv[i].unknownCount
               /\ inv'[i].unknownSenders = inv[i].unknownSenders
               /\ inv'[i].k = inv[i].k + 1
               /\ inv[i].k < Len(inv[i].unknownSenders)
                    => inv'[i].pc \in {"getThreadsFromSender", "aiCategorizeSender"}
               /\ inv[i].k = Len(inv[i].unknownSenders) => inv'[i].pc = "user.update"
       /\ inv'[i].pc = "done"
            => /\ Cardinality(At(inv'[i], "aiCategorizeSender")) = Len(inv'[i].unknownSenders)
               /\ inv'[i].unknownCount
                    = Cardinality({p \in At(inv'[i], "aiCategorizeSender") :
                                     inv'[i].log[p].result # NoResult})]_vars

\* C19 witness: an invocation has returned after the engine gave no result
\* for one sender of the second pass and a later sender of it was assigned.
C19_Witness ==
  \E i \in Invs :
     /\ inv[i].pc = "done"
     /\ \E p \in At(inv[i], "aiCategorizeSender"), q \in At(inv[i], "newsletter.upsert") :
          /\ inv[i].log[p].result = NoResult
          /\ p < q
          /\ inv[i].log[q].sender # inv[i].log[p].sender
          /\ \E f \in At(inv[i], "aiCategorizeSender") :
               p < f /\ f < q /\ inv[i].log[f].sender = inv[i].log[q].sender

\* C20: in the second pass the provider is asked for a sender's recent
\* messages, at most 3 of them, if and only if the discovery page holds no
\* snippet of the sender; each iteration makes one single-sender engine
\* call, in the order of the list, and at most one provider fetch, which
\* the engine call of the same sender follows at once; the writes of an
\* iteration come before the calls of the next.
C20_FetchIffNoSnippet ==
  \A i \in Invs :
     LET r == inv[i]
         noSnippet(sender) == Len(SnippetsOf(r.sendersResult, sender)) = 0
     IN /\ \A p \in At(r, "aiCategorizeSender") :
             LET sender == r.log[p].sender
                 m == Cardinality({q \in At(r, "aiCategorizeSender") : q <= p})
             IN /\ m <= Len(r.unknownSenders)
                /\ r.unknownSenders[m].sender = sender
                /\ noSnippet(sender)
                     <=> /\ r.log[p - 1].op = "getThreadsFromSender"
                         /\ r.log[p - 1].sender = sender
                         /\ r.log[p - 1].result # Throws
        /\ \A g \in At(r, "getThreadsFromSender") :
             /\ noSnippet(r.log[g].sender)
             /\ g < Len(r.log) =>
                  /\ r.log[g + 1].op = "aiCategorizeSender"
                  /\ r.log[g + 1].sender = r.log[g].sender
             /\ g = Len(r.log) => r.pc \in {"aiCategorizeSender", "rejected"}
        /\ \A q \in At(r, "category.create") \cup At(r, "newsletter.upsert") :
             LET before == {f \in FallbackCalls(r) : f < q}
             IN before # {} =>
                  LET f == CHOOSE f \in before : \A e \in before : e <= f
                  IN /\ r.log[f].op = "aiCategorizeSender"
                     /\ r.log[f].sender = r.log[q].sender
                     /\ r.log[f].result = r.log[q].result
        /\ r.pc = "aiCategorizeSender" =>
             LET sender == r.unknownSenders[r.k].sender
             IN /\ Len(r.previousEmails) <= PreviousEmailsLimit
                /\ ~ noSnippet(sender) =>
                     r.previousEmails = SnippetsOf(r.sendersResult, sender)
                /\ noSnippet(sender) =>
                     Range(r.previousEmails) \subseteq Range(ThreadsOf(sender)) \ {NoSnippet}
        /\ r.pc = "done" =>
             Cardinality(At(r, "aiCategorizeSender")) = Len(r.unknownSenders)

\* C20 witness: the second pass has asked the engine about a sender with a
\* snippet on the page without a fetch, and is about to ask it about a
\* sender without one, with the messages the provider returned of the more
\* than 3 it holds.
C20_Witness ==
  \E i \in Invs :
     /\ inv[i].pc = "aiCategorizeSender"
     /\ inv[i].log[Len(inv[i].log)].op = "getThreadsFromSender"
     /\ inv[i].previousEmails # <<>>
     /\ Len(ThreadsOf(inv[i].unknownSenders[inv[i].k].sender)) > PreviousEmailsLimit
     /\ \E p \in At(inv[i], "aiCategorizeSender") :
          /\ Len(SnippetsOf(inv[i].sendersResult, inv[i].log[p].sender)) > 0
          /\ inv[i].log[p - 1].op # "getThreadsFromSender"

====
